---- MODULE Spec2Model ----
(***************************************************************************)
(* Task API of the Primetrade backend: the Task model (schema defaults,    *)
(* validators, pre-save hook, getUserStats) and the six /api/tasks routes. *)
(* Every route handler is cut at its awaits: one action per store round    *)
(* trip, so that requests interleave exactly where the event loop lets     *)
(* them.                                                                   *)
(*                                                                         *)
(* Dates are clock ticks (integers); NoDate stands for null/undefined,     *)
(* AbsentDate for a field missing from a request body and InvalidDate for  *)
(* a string that does not parse as a date.                                 *)
(***************************************************************************)
EXTENDS Integers, Sequences, FiniteSets, Bags, TLC

\* ---------------------------------------------------------------- bounds
MaxTasks == 2      \* ObjectIds the store hands out
MaxTime  == 2      \* last clock tick
MaxReqs  == 2      \* requests in flight at once
DayLen   == 2      \* clock ticks per calendar day
MaxPage  == 2      \* largest page number requested
MaxUsers == 2      \* user records the store can hold

\* ------------------------------------------------------- program constants
MinLimit     == 1
MaxLimit     == 100
DefaultLimit == 10
DefaultPage  == 1

Statuses   == {"pending", "in-progress", "completed", "cancelled"}
Priorities == {"low", "medium", "high", "urgent"}
DefaultStatus   == "pending"
DefaultPriority == "medium"

Users == {"alice", "bob"}
Role  == [u \in Users |-> IF u = "bob" THEN "admin" ELSE "user"]

Absent      == "absent"     \* undefined string-valued field
NoDate      == -1           \* null / undefined date
AbsentDate  == -2           \* dueDate missing from the body
InvalidDate == -3           \* dueDate that does not parse
Ids         == 1..MaxTasks
NoId        == 0

NoTask == [exists |-> FALSE]
AltForm == 100              \* instant t written date-only or with an offset: AltForm + t
AbsentTags == <<Absent>>    \* the tags of a body that carries none
TooLong == "x * 501"        \* a description longer than the 500 characters allowed
NoResp == [op |-> "none"]

UserIds == 1..MaxUsers
NoUser == [exists |-> FALSE]
Null == "null"              \* no user in the context, no cookie in the jar

\* window.location paths, as the characters encodeURIComponent goes through
Home == <<"/">>
LoginPage == <<"/", "l">>
Dashboard == <<"/", "d">>
TasksPage == <<"/", "d", "/", "t">>
NoParam == <<>>             \* a location without a redirect parameter

\* useState<User | null>(null), useState(true): the provider as a page load
\* leaves it, with the cookies the browser holds and initAuth still to run
Mounted(token, cookie, path) ==
    [user |-> Null, loading |-> TRUE, token |-> token, cookie |-> cookie,
     path |-> [at |-> path, redirect |-> NoParam], pc |-> "init", out |-> FALSE]

VARIABLES
    store,      \* the tasks collection: id -> document, or NoTask
    nextId,     \* next ObjectId to hand out
    now,        \* the clock (new Date())
    inflight,   \* bag of suspended handlers, each waiting for its next store call
    resp,       \* the response sent by the last step, NoResp if it sent none
    open,       \* how many requests the clients keep open at once
    users,      \* the users collection: id -> document, or NoUser
    auth        \* the browser: the auth context's state, the cookies, the page

vars == <<store, nextId, now, inflight, resp, open, users, auth>>

Min(a, b) == IF a < b THEN a ELSE b

Exists(id) == store[id] # NoTask

\* a lookup by id alone, the owner filter dropped
FindOne_AnyOwner(id, user) ==
    IF id \in Ids /\ Exists(id) THEN store[id] ELSE NoTask

\* Task.findOne({ _id, user })
FindOne(id, user) ==
    IF id \in Ids /\ Exists(id) /\ store[id].user = user THEN store[id] ELSE NoTask

\* Task.findById(_id)
FindById(id) == IF id \in Ids THEN store[id] ELSE NoTask

NotFound(op, who, id) ==
    [op |-> op, who |-> who, id |-> id, code |-> 404,
     message |-> "Task not found", data |-> NoTask]

ValidationFailed(op, who, fields) ==
    [op |-> op, who |-> who, id |-> NoId, code |-> 400,
     message |-> "Validation failed", errors |-> fields]

\* a mongoose ValidationError thrown out of the handler
Thrown(op, who, fields) ==
    [op |-> op, who |-> who, id |-> NoId, code |-> 0,
     message |-> "ValidationError", errors |-> fields]

\* a mongoose CastError thrown out of the handler
CastError(op, who, fields) ==
    [op |-> op, who |-> who, id |-> NoId, code |-> 0,
     message |-> "CastError", errors |-> fields]

HasSlot == BagCardinality(inflight) < open

\* ------------------------------------------------------------ Task model

\* a validator that also lets the present instant through
DueDateValid_NotPast(value, t) == value = NoDate \/ value >= t

\* dueDate validator of the schema: !value || value > new Date()
DueDateValid(value, t) == value = NoDate \/ value > t

\* a hook that leaves completedAt as it finds it
PreSave_Off(doc, statusModified, t) == doc

\* pre('save') hook
PreSave(doc, statusModified, t) ==
    IF statusModified
    THEN IF doc.status = "completed" /\ doc.completedAt = NoDate
         THEN [doc EXCEPT !.completedAt = t]
         ELSE IF doc.status # "completed"
              THEN [doc EXCEPT !.completedAt = NoDate]
              ELSE doc
    ELSE doc

\* the trim setter of the schema's strings (and trim() of the validator chains)
Trim(s) == IF s = " a " THEN "a" ELSE IF s = "  " THEN "" ELSE s

TrimAll(tags) == [i \in 1..Len(tags) |-> Trim(tags[i])]

\* a constructor that leaves the tags of the body out
NewTask_NoTags(title, description, status, priority, dueDate, tags, user) ==
    [user        |-> user,
     title       |-> Trim(title),
     description |-> Trim(description),
     tags        |-> <<>>,
     status      |-> IF status = Absent THEN DefaultStatus ELSE status,
     priority    |-> IF priority = Absent THEN DefaultPriority ELSE priority,
     dueDate     |-> dueDate,
     completedAt |-> NoDate]

\* new Task({...}) with the schema defaults applied; an array path defaults to []
NewTask(title, description, status, priority, dueDate, tags, user) ==
    [user        |-> user,
     title       |-> Trim(title),
     description |-> Trim(description),
     tags        |-> IF tags = AbsentTags THEN <<>> ELSE TrimAll(tags),
     status      |-> IF status = Absent THEN DefaultStatus ELSE status,
     priority    |-> IF priority = Absent THEN DefaultPriority ELSE priority,
     dueDate     |-> dueDate,
     completedAt |-> NoDate]

\* new Date(string): the instant an ISO 8601 string denotes, whatever its notation
ParseDate(w) == IF w >= AltForm THEN w - AltForm ELSE w

\* taskSchema.virtual('isOverdue'), read at time t
IsOverdueVirtual(doc, t) ==
    doc.dueDate # NoDate /\ doc.dueDate < t /\ doc.status # "completed"

\* taskUtils.isOverdue of the client library, on a task as the API sends it
TaskUtilsIsOverdue(task, t) ==
    IF task.dueDate = NoDate \/ task.status = "completed" \/ task.status = "cancelled"
    THEN FALSE
    ELSE ParseDate(task.dueDate) < t

\* --------------------------------------------------------------- the clock
Tick ==
    /\ now < MaxTime
    /\ now' = now + 1
    /\ resp' = NoResp
    /\ UNCHANGED <<store, nextId, inflight, open, users, auth>>

\* ------------------------------------------------------- GET /api/tasks/:id
GetTask(who, id) ==
    /\ resp' = IF FindOne(id, who) = NoTask
               THEN NotFound("get", who, id)
               ELSE [op |-> "get", who |-> who, id |-> id, code |-> 200,
                     message |-> "", data |-> FindOne(id, who)]
    /\ UNCHANGED <<store, nextId, now, inflight, open, users, auth>>

\* -------------------------------------------------------- POST /api/tasks
\* the express-validator chain of POST /
CreateErrors(body) ==
    (IF Trim(body.title) = "" THEN {"title"} ELSE {}) \cup
    (IF body.description = TooLong THEN {"description"} ELSE {}) \cup
    (IF \E i \in 1..Len(body.tags) : Trim(body.tags[i]) = "" THEN {"tags"} ELSE {}) \cup
    (IF body.status \notin {Absent} \cup Statuses THEN {"status"} ELSE {}) \cup
    (IF body.priority \notin {Absent} \cup Priorities THEN {"priority"} ELSE {}) \cup
    (IF body.dueDate = InvalidDate THEN {"dueDate"} ELSE {})

\* dueDate ? new Date(dueDate) : undefined
CreateDueDate(body) ==
    IF body.dueDate = AbsentDate THEN NoDate ELSE ParseDate(body.dueDate)

\* an owner taken from the request body when it names one
CreateOwner_FromBody(who, body) == IF body.user = Absent THEN who ELSE body.user

\* the owner POST / stores with the task
CreateOwner(who, body) == who

\* the document Task.create saves
CreateDoc(who, body) ==
    PreSave(NewTask(body.title, body.description, body.status, body.priority,
                    CreateDueDate(body), body.tags, CreateOwner(who, body)),
            body.status # Absent, now)

CreateTask(who, body) ==
    /\ nextId <= MaxTasks
    /\ IF CreateErrors(body) # {}
       THEN /\ resp' = ValidationFailed("create", who, CreateErrors(body))
            /\ UNCHANGED <<store, nextId, inflight>>
       ELSE IF ~DueDateValid(CreateDueDate(body), now)
       THEN /\ resp' = Thrown("create", who, {"dueDate"})
            /\ UNCHANGED <<store, nextId, inflight>>
       ELSE /\ HasSlot
            /\ store' = [store EXCEPT ![nextId] = CreateDoc(who, body)]
            /\ nextId' = nextId + 1
            /\ inflight' = inflight (+)
                   SetToBag({[op |-> "create", who |-> who, id |-> nextId]})
            /\ resp' = NoResp
    /\ UNCHANGED <<now, open, users, auth>>

\* Task.findById(task._id) and the 201 response
CreateRespond(r) ==
    /\ r.op = "create"
    /\ inflight' = inflight (-) SetToBag({r})
    /\ resp' = [op |-> "create", who |-> r.who, id |-> r.id, code |-> 201,
                message |-> "Task created successfully", data |-> FindById(r.id)]
    /\ UNCHANGED <<store, nextId, now, open, users, auth>>

\* ------------------------------------------------------ PUT /api/tasks/:id
\* the express-validator chain of PUT /:id; a null or '' dueDate passes
UpdateErrors(body) ==
    (IF Trim(body.title) = "" THEN {"title"} ELSE {}) \cup
    (IF body.description = TooLong THEN {"description"} ELSE {}) \cup
    (IF \E i \in 1..Len(body.tags) : Trim(body.tags[i]) = "" THEN {"tags"} ELSE {}) \cup
    (IF body.status \notin {Absent} \cup Statuses THEN {"status"} ELSE {}) \cup
    (IF body.priority \notin {Absent} \cup Priorities THEN {"priority"} ELSE {}) \cup
    (IF body.dueDate = InvalidDate THEN {"dueDate"} ELSE {})

\* updateData: only the fields the body provides; dueDate ? new Date(dueDate) : null
UpdateData(body) ==
    [title |-> Trim(body.title), description |-> Trim(body.description),
     status |-> body.status, priority |-> body.priority,
     dueDate |-> body.dueDate,
     tags |-> IF body.tags = AbsentTags THEN AbsentTags ELSE TrimAll(body.tags)]

\* an update that runs no validators
UpdateValid_Off(upd, t) == TRUE

\* the update validators findByIdAndUpdate runs with runValidators: true
\* (only on the paths of updateData; the schema's dueDate validator is one)
UpdateValid(upd, t) ==
    upd.dueDate = AbsentDate \/ DueDateValid(upd.dueDate, t)

\* an update that writes the document anew and so loses its completedAt
ApplyUpdate_Unstamp(doc, upd) ==
    [doc EXCEPT
       !.title    = IF upd.title = Absent THEN @ ELSE upd.title,
       !.status   = IF upd.status = Absent THEN @ ELSE upd.status,
       !.completedAt = NoDate]

\* an update that replaces the document's fields by the body's, given or not
ApplyUpdate_Replace(doc, upd) ==
    [doc EXCEPT !.title = upd.title, !.description = upd.description,
                !.status = upd.status, !.priority = upd.priority,
                !.dueDate = upd.dueDate, !.tags = upd.tags]

\* the $set of updateData on a stored document; no save hook runs
ApplyUpdate(doc, upd) ==
    [doc EXCEPT
       !.title    = IF upd.title = Absent THEN @ ELSE upd.title,
       !.description = IF upd.description = Absent THEN @ ELSE upd.description,
       !.tags     = IF upd.tags = AbsentTags THEN @ ELSE upd.tags,
       !.status   = IF upd.status = Absent THEN @ ELSE upd.status,
       !.priority = IF upd.priority = Absent THEN @ ELSE upd.priority,
       !.dueDate  = IF upd.dueDate = AbsentDate THEN @ ELSE upd.dueDate]

\* a lookup that lets an admin through to any task
OwnedTask_AdminBypass(who, id) ==
    IF Role[who] = "admin" THEN FindById(id) ELSE FindOne(id, who)

\* the lookup PUT /:id and DELETE /:id do before they write
OwnedTask(who, id) == FindOne(id, who)

PutFind(who, id, body) ==
    /\ IF UpdateErrors(body) # {}
       THEN /\ resp' = ValidationFailed("put", who, UpdateErrors(body))
            /\ UNCHANGED inflight
       ELSE IF OwnedTask(who, id) = NoTask
       THEN /\ resp' = NotFound("put", who, id)
            /\ UNCHANGED inflight
       ELSE /\ HasSlot
            /\ inflight' = inflight (+)
                   SetToBag({[op |-> "put", who |-> who, id |-> id,
                              upd |-> UpdateData(body)]})
            /\ resp' = NoResp
    /\ UNCHANGED <<store, nextId, now, open, users, auth>>

\* Task.findByIdAndUpdate(id, updateData, { new: true, runValidators: true })
PutWrite(r) ==
    /\ r.op = "put"
    /\ inflight' = inflight (-) SetToBag({r})
    /\ IF ~UpdateValid(r.upd, now)
       THEN /\ resp' = [Thrown("put", r.who, {"dueDate"}) EXCEPT !.id = r.id]
            /\ UNCHANGED store
       ELSE IF ~Exists(r.id)
       THEN /\ resp' = [op |-> "put", who |-> r.who, id |-> r.id, code |-> 200,
                        message |-> "Task updated successfully", data |-> NoTask]
            /\ UNCHANGED store
       ELSE /\ store' = [store EXCEPT ![r.id] = ApplyUpdate(@, r.upd)]
            /\ resp' = [op |-> "put", who |-> r.who, id |-> r.id, code |-> 200,
                        message |-> "Task updated successfully",
                        data |-> ApplyUpdate(store[r.id], r.upd)]
    /\ UNCHANGED <<nextId, now, open, users, auth>>

\* --------------------------------------------------- DELETE /api/tasks/:id
DeleteFind(who, id) ==
    /\ IF OwnedTask(who, id) = NoTask
       THEN /\ resp' = NotFound("delete", who, id)
            /\ UNCHANGED inflight
       ELSE /\ HasSlot
            /\ inflight' = inflight (+)
                   SetToBag({[op |-> "delete", who |-> who, id |-> id]})
            /\ resp' = NoResp
    /\ UNCHANGED <<store, nextId, now, open, users, auth>>

\* a removal that keeps the document and marks it cancelled
Removed_Soft(doc) == [doc EXCEPT !.status = "cancelled"]

\* what findByIdAndDelete leaves of the document in the collection
Removed(doc) == NoTask

\* Task.findByIdAndDelete(id)
DeleteRemove(r) ==
    /\ r.op = "delete"
    /\ inflight' = inflight (-) SetToBag({r})
    /\ store' = [store EXCEPT ![r.id] = IF Exists(r.id) THEN Removed(@) ELSE @]
    /\ resp' = [op |-> "delete", who |-> r.who, id |-> r.id, code |-> 200,
                message |-> "Task deleted successfully", data |-> NoTask]
    /\ UNCHANGED <<nextId, now, open, users, auth>>

\* ----------------------------------------------------------- GET /api/tasks
AbsentNum == -1             \* page or limit missing from the query string

SortFields == {"createdAt", "updatedAt", "dueDate", "title", "priority"}

\* the express-validator chain of GET /; dueBefore, dueAfter, search and tag
\* have no validator
ListErrors(q) ==
    (IF q.page # AbsentNum /\ q.page < 1 THEN {"page"} ELSE {}) \cup
    (IF q.limit # AbsentNum /\ (q.limit < MinLimit \/ q.limit > MaxLimit)
     THEN {"limit"} ELSE {}) \cup
    (IF q.status \notin {Absent} \cup Statuses THEN {"status"} ELSE {}) \cup
    (IF q.priority \notin {Absent} \cup Priorities THEN {"priority"} ELSE {}) \cup
    (IF q.sortBy \notin {Absent} \cup SortFields THEN {"sortBy"} ELSE {}) \cup
    (IF q.sortOrder \notin {Absent, "asc", "desc"} THEN {"sortOrder"} ELSE {})

\* parseInt(raw, 10) || dflt
ParseIntOr(raw, dflt) == IF raw = AbsentNum \/ raw = 0 THEN dflt ELSE raw

Page(q)       == ParseIntOr(q.page, DefaultPage)
Limit(q)      == ParseIntOr(q.limit, DefaultLimit)
StartIndex(q) == (Page(q) - 1) * Limit(q)

\* the owner the list query is scoped to
ListOwner(who, q) == who

\* the characters of the strings that searches are run against; any other
\* string of the model stays whole, no search being a part of one
Chars(s) ==
    CASE s = "urgent"     -> <<"u", "r", "g", "e", "n", "t">>
      [] s = "URGENT"     -> <<"U", "R", "G", "E", "N", "T">>
      [] s = "u.gent"     -> <<"u", ".", "g", "e", "n", "t">>
      [] s = "urgent-fix" -> <<"u", "r", "g", "e", "n", "t", "-", "f", "i", "x">>
      [] s = "urgentfix"  -> <<"u", "r", "g", "e", "n", "t", "f", "i", "x">>
      [] s = "Urgent"     -> <<"U", "r", "g", "e", "n", "t">>
      [] OTHER            -> <<s>>

\* case folding of the $options: 'i' match
Lower(c) ==
    CASE c = "U" -> "u" [] c = "R" -> "r" [] c = "G" -> "g"
      [] c = "E" -> "e" [] c = "N" -> "n" [] c = "T" -> "t"
      [] OTHER -> c

\* one character of a regular expression against one character of a text
CharMatches(p, c) == p = "." \/ Lower(p) = Lower(c)

\* { $regex: pattern, $options: 'i' }: the pattern, taken as a regular
\* expression and not as a literal, is found somewhere in the text
RegexFinds(pattern, text) ==
    LET p == Chars(pattern)
        t == Chars(text)
    IN  \E i \in 1..(Len(t) - Len(p) + 1) :
            \A k \in 1..Len(p) : CharMatches(p[k], t[i + k - 1])

\* the $or group of req.query.search
SearchMatches(doc, search) ==
    \/ RegexFinds(search, doc.title)
    \/ doc.description # Absent /\ RegexFinds(search, doc.description)
    \/ \E i \in 1..Len(doc.tags) : RegexFinds(search, doc.tags[i])

\* the query object built from req.query, as a predicate on documents; a
\* document without dueDate is matched by no $lte or $gte
Matches(doc, who, q) ==
    /\ doc # NoTask
    /\ doc.user = ListOwner(who, q)
    /\ q.status # Absent => doc.status = q.status
    /\ q.priority # Absent => doc.priority = q.priority
    /\ q.search # Absent => SearchMatches(doc, q.search)
    /\ q.tag # Absent => \E i \in 1..Len(doc.tags) : doc.tags[i] = q.tag
    /\ q.dueBefore # AbsentDate =>
           (doc.dueDate # NoDate /\ doc.dueDate <= ParseDate(q.dueBefore))
    /\ q.dueAfter # AbsentDate =>
           (doc.dueDate # NoDate /\ doc.dueDate >= ParseDate(q.dueAfter))

Matching(who, q) == {id \in Ids : Matches(store[id], who, q)}

\* Task.countDocuments(query)
CountDocuments(who, q) == Cardinality(Matching(who, q))

SortOrder(q) == IF q.sortOrder = "asc" THEN 1 ELSE -1

\* req.query.sortBy || 'createdAt'
SortBy(q) == IF q.sortBy = Absent THEN "createdAt" ELSE q.sortBy

\* .skip(startIndex).limit(limit) on the sorted result
Slice(s, start, limit) ==
    IF start >= Len(s) THEN <<>> ELSE SubSeq(s, start + 1, Min(start + limit, Len(s)))

\* the place of a string among the strings that are sorted, by code unit
Rank(s) ==
    CASE s = "a" -> 1 [] s = "b" -> 2 [] s = "c" -> 3
      [] s = "high" -> 1 [] s = "low" -> 2 [] s = "medium" -> 3 [] s = "urgent" -> 4
      [] OTHER -> 0

\* the value of the sort field: createdAt follows the order of insertion, a
\* task without dueDate comes before every date (updatedAt is not kept here
\* and no query drawn sorts by it)
SortKey(id, by) ==
    CASE by = "title"    -> Rank(store[id].title)
      [] by = "priority" -> Rank(store[id].priority)
      [] by = "dueDate"  -> store[id].dueDate
      [] OTHER           -> id

\* every arrangement of the ids of S
Perms(S) ==
    {f \in [1..Cardinality(S) -> S] :
        \A i, j \in 1..Cardinality(S) : i # j => f[i] # f[j]}

\* .sort({ [sortBy]: sortOrder }): the arrangements in the order of the sort
\* field alone; documents equal in it come in any order, from one execution
\* of the query to the next
Sorted(S, q) ==
    {f \in Perms(S) :
        \A i \in 1..(Cardinality(S) - 1) :
            SortOrder(q) * SortKey(f[i], SortBy(q))
                <= SortOrder(q) * SortKey(f[i + 1], SortBy(q))}

\* Task.find(query).sort(sort).limit(limit).skip(startIndex): the ids of the
\* page, in each order the sort allows
Finds(who, q) ==
    {Slice(s, StartIndex(q), Limit(q)) : s \in Sorted(Matching(who, q), q)}

NoLink == [page |-> 0, limit |-> 0]

\* a next link that is still offered on the last full page
NextLink_OffByOne(q, total) ==
    IF StartIndex(q) + Limit(q) <= total
    THEN [page |-> Page(q) + 1, limit |-> Limit(q)] ELSE NoLink

\* pagination.next / pagination.prev
NextLink(q, total) ==
    IF StartIndex(q) + Limit(q) < total
    THEN [page |-> Page(q) + 1, limit |-> Limit(q)] ELSE NoLink

PrevLink(q) ==
    IF StartIndex(q) > 0
    THEN [page |-> Page(q) - 1, limit |-> Limit(q)] ELSE NoLink

\* new Date(req.query.dueBefore) of a string that is no date is an Invalid Date,
\* which the query cannot be cast with
CastFails(q) == q.dueBefore = InvalidDate \/ q.dueAfter = InvalidDate

ListCount(who, q) ==
    /\ IF ListErrors(q) # {}
       THEN /\ resp' = ValidationFailed("list", who, ListErrors(q))
            /\ UNCHANGED inflight
       ELSE IF CastFails(q)
       THEN /\ resp' = CastError("list", who, {"dueDate"})
            /\ UNCHANGED inflight
       ELSE /\ HasSlot
            /\ inflight' = inflight (+)
                   SetToBag({[op |-> "list", who |-> who, q |-> q,
                              total |-> CountDocuments(who, q)]})
            /\ resp' = NoResp
    /\ UNCHANGED <<store, nextId, now, open, users, auth>>

ListFind(r) ==
    /\ r.op = "list"
    /\ inflight' = inflight (-) SetToBag({r})
    /\ \E ids \in Finds(r.who, r.q) :
         resp' = [op |-> "list", who |-> r.who, id |-> NoId, code |-> 200,
                  q |-> r.q,
                  count |-> Len(ids),
                  total |-> r.total,
                  next |-> NextLink(r.q, r.total),
                  prev |-> PrevLink(r.q),
                  ids |-> ids,
                  data |-> [i \in 1..Len(ids) |-> store[ids[i]]]]
    /\ UNCHANGED <<store, nextId, now, open, users, auth>>

\* ------------------------------------------------ GET /api/tasks/stats/overview
StatusOrder == <<"pending", "in-progress", "completed", "cancelled">>
StatKeys    == {"total"} \cup Statuses

\* the owner the statistics are scoped to
StatsOwner(who) == who

\* $match { user } and $group by status: one {_id, count} per status that occurs
Aggregate(who) ==
    LET n(s) == Cardinality({id \in Ids : Exists(id) /\ store[id].user = StatsOwner(who)
                                          /\ store[id].status = s})
    IN  SelectSeq([i \in 1..Len(StatusOrder) |->
                      [id |-> StatusOrder[i], count |-> n(StatusOrder[i])]],
                  LAMBDA g : g.count > 0)

\* a turn that overwrites the running total
AddGroup_Overwrite(result, stat) ==
    [result EXCEPT ![stat.id] = stat.count, !["total"] = stat.count]

\* one turn of stats.forEach
AddGroup(result, stat) ==
    [result EXCEPT ![stat.id] = stat.count, !["total"] = @ + stat.count]

RECURSIVE ForEach(_, _)
ForEach(result, groups) ==
    IF groups = <<>> THEN result
    ELSE ForEach(AddGroup(result, Head(groups)), Tail(groups))

\* taskSchema.statics.getUserStats
GetUserStats(who) == ForEach([k \in StatKeys |-> 0], Aggregate(who))

\* a filter that leaves cancelled tasks in
NotDone_OnlyCompleted(doc) == doc.status # "completed"

\* status: { $nin: ['completed', 'cancelled'] }
NotDone(doc) == doc.status \notin {"completed", "cancelled"}

\* countDocuments({ user, dueDate: { $lt: t }, status: { $nin: [...] } })
OverdueCount(who, t) ==
    Cardinality({id \in Ids : /\ Exists(id)
                              /\ store[id].user = StatsOwner(who)
                              /\ store[id].dueDate # NoDate
                              /\ store[id].dueDate < t
                              /\ NotDone(store[id])})

\* today.setHours(0, 0, 0, 0)
StartOfDay(t) == t - (t % DayLen)
\* tomorrow = today + 1 day, then setHours(0, 0, 0, 0)
StartOfNextDay(t) == StartOfDay(t + DayLen)

\* countDocuments({ user, dueDate: { $gte: from, $lt: to }, status: { $nin: [...] } })
DueBetweenCount(who, from, to) ==
    Cardinality({id \in Ids : /\ Exists(id)
                              /\ store[id].user = StatsOwner(who)
                              /\ store[id].dueDate # NoDate
                              /\ store[id].dueDate >= from
                              /\ store[id].dueDate < to
                              /\ NotDone(store[id])})

\* await Task.getUserStats(req.user.id)
StatsAggregate(who) ==
    /\ HasSlot
    /\ inflight' = inflight (+)
           SetToBag({[op |-> "stats", who |-> who, pc |-> "overdue",
                      stats |-> GetUserStats(who), overdue |-> 0, t1 |-> NoDate]})
    /\ resp' = NoResp
    /\ UNCHANGED <<store, nextId, now, open, users, auth>>

\* await Task.countDocuments({ ..., dueDate: { $lt: new Date() } })
StatsOverdue(r) ==
    /\ r.op = "stats" /\ r.pc = "overdue"
    /\ inflight' = (inflight (-) SetToBag({r})) (+)
           SetToBag({[r EXCEPT !.pc = "dueToday", !.t1 = now,
                               !.overdue = OverdueCount(r.who, now)]})
    /\ resp' = NoResp
    /\ UNCHANGED <<store, nextId, now, open, users, auth>>

\* const today = new Date(); ... await Task.countDocuments({ ... }); res.json
StatsDueToday(r) ==
    /\ r.op = "stats" /\ r.pc = "dueToday"
    /\ inflight' = inflight (-) SetToBag({r})
    /\ resp' = [op |-> "stats", who |-> r.who, id |-> NoId, code |-> 200,
                data |-> r.stats,
                overdue |-> r.overdue,
                dueToday |-> DueBetweenCount(r.who, StartOfDay(now), StartOfNextDay(now)),
                t1 |-> r.t1, t2 |-> now]
    /\ UNCHANGED <<store, nextId, now, open, users, auth>>

\* ================================================================ the users
\* A user document carries the fields the user routes read and write; the
\* password hash, the avatar and lastLogin are read by no route modelled here.
Emails == {"a@x", "A@x", "b@x"}
BadEmail == "bad"           \* a string isEmail() refuses

\* the address in lower case: the one form the store keeps and compares
LowerEmail(e) == IF e = "A@x" THEN "a@x" ELSE e

\* body('email').isEmail().normalizeEmail()
IsEmail(e) == e \in Emails
NormalizeEmail(e) == LowerEmail(e)

UserExists(i) == users[i] # NoUser
FreeIds == {i \in UserIds : ~UserExists(i)}
NextUserId == CHOOSE i \in FreeIds : \A j \in FreeIds : i <= j

\* User.findByEmail(email): the id of the user holding the address, 0 if none
FindByEmail(e) ==
    LET S == {i \in UserIds : UserExists(i) /\ users[i].email = LowerEmail(e)}
    IN IF S = {} THEN 0 ELSE CHOOSE i \in S : TRUE

\* a collection without the unique index
EmailFree_Any(e, self) == TRUE

\* the unique index on email: a write of address e to document self goes
\* through only if no other document holds e
EmailFree(e, self) ==
    \A i \in UserIds : (UserExists(i) /\ i # self) => users[i].email # LowerEmail(e)

\* the write the index refuses is thrown to the error handler
DuplicateKey(op, id) ==
    [op |-> op, who |-> Absent, id |-> id, code |-> 0, message |-> "DuplicateKey"]

UserNotFound(op, id) ==
    [op |-> op, who |-> Absent, id |-> id, code |-> 404, message |-> "User not found"]

EmailTaken(op, id, message) ==
    [op |-> op, who |-> Absent, id |-> id, code |-> 400, message |-> message]

\* User.create({ name, email, password })
NewUser(name, email) ==
    [exists |-> TRUE, name |-> name, email |-> LowerEmail(email),
     role |-> "user", isActive |-> TRUE]

UserBody(name, email, role, isActive) ==
    [name |-> name, email |-> email, role |-> role, isActive |-> isActive]

\* { ...(name && { name }), ...(email && { email }), ...(role && { role }),
\*   ...(isActive !== undefined && { isActive }) }
UpdateUser(doc, upd) ==
    [doc EXCEPT !.name     = IF upd.name \in {Absent, ""} THEN @ ELSE upd.name,
                !.email    = IF upd.email \in {Absent, ""} THEN @ ELSE LowerEmail(upd.email),
                !.role     = IF upd.role \in {Absent, ""} THEN @ ELSE upd.role,
                !.isActive = IF upd.isActive = Absent THEN @ ELSE upd.isActive = "true"]

\* name: trim, 2 to 50 characters; email: isEmail
ProfileErrors(body, optional) ==
    (IF (optional /\ body.name = Absent) \/ (body.name # Absent /\ Len(Trim(body.name)) >= 2)
     THEN <<>> ELSE <<"name">>) \o
    (IF (optional /\ body.email = Absent) \/ IsEmail(body.email)
     THEN <<>> ELSE <<"email">>)

\* ------------------------------------------------- POST /api/auth/register
\* validation, then await User.findByEmail(email)
RegisterFind(body) ==
    /\ Cardinality(FreeIds) > BagCardinality(inflight)
    /\ IF ProfileErrors(body, FALSE) # <<>>
       THEN /\ resp' = ValidationFailed("register", Absent, ProfileErrors(body, FALSE))
            /\ UNCHANGED inflight
       ELSE IF FindByEmail(NormalizeEmail(body.email)) # 0
       THEN /\ resp' = EmailTaken("register", NoId, "User already exists with this email")
            /\ UNCHANGED inflight
       ELSE /\ HasSlot
            /\ inflight' = inflight (+)
                   SetToBag({[op |-> "register", name |-> Trim(body.name),
                              email |-> NormalizeEmail(body.email)]})
            /\ resp' = NoResp
    /\ UNCHANGED <<store, nextId, now, open, users, auth>>

\* await User.create({ name, email, password }); res.status(201)
RegisterCreate(r) ==
    /\ r.op = "register"
    /\ inflight' = inflight (-) SetToBag({r})
    /\ IF EmailFree(r.email, 0)
       THEN /\ users' = [users EXCEPT ![NextUserId] = NewUser(r.name, r.email)]
            /\ resp' = [op |-> "register", who |-> Absent, id |-> NextUserId,
                        code |-> 201, message |-> "User registered successfully",
                        data |-> NewUser(r.name, r.email)]
       ELSE /\ resp' = DuplicateKey("register", NoId)
            /\ UNCHANGED users
    /\ UNCHANGED <<store, nextId, now, open, auth>>

\* ------------------------------------------------------- PUT /api/auth/me
\* protect loads req.user; validation; the handler up to its first store call
MeFind(who, body) ==
    /\ UserExists(who)
    /\ IF ProfileErrors(body, TRUE) # <<>>
       THEN /\ resp' = ValidationFailed("me", Absent, ProfileErrors(body, TRUE))
            /\ UNCHANGED inflight
       ELSE LET email == IF body.email = Absent THEN Absent ELSE NormalizeEmail(body.email)
                name  == IF body.name = Absent THEN Absent ELSE Trim(body.name)
            IN /\ HasSlot
               /\ inflight' = inflight (+)
                      SetToBag({[op |-> "me", id |-> who,
                                 pc |-> IF email # Absent /\ email # users[who].email
                                        THEN "email" ELSE "write",
                                 upd |-> UserBody(name, email, Absent, Absent)]})
               /\ resp' = NoResp
    /\ UNCHANGED <<store, nextId, now, open, users, auth>>

\* await User.findByEmail(email) of PUT /me and of PUT /users/:id
CheckEmail(r, message) ==
    /\ r.pc = "email"
    /\ IF FindByEmail(r.upd.email) # 0
       THEN /\ inflight' = inflight (-) SetToBag({r})
            /\ resp' = EmailTaken(r.op, r.id, message)
       ELSE /\ inflight' = (inflight (-) SetToBag({r})) (+)
                               SetToBag({[r EXCEPT !.pc = "write"]})
            /\ resp' = NoResp
    /\ UNCHANGED <<store, nextId, now, open, users, auth>>

\* await User.findByIdAndUpdate(id, {...}, { new: true, runValidators: true })
WriteUser(r, message) ==
    /\ r.pc = "write"
    /\ inflight' = inflight (-) SetToBag({r})
    /\ IF r.upd.email \in {Absent, ""} \/ EmailFree(r.upd.email, r.id)
       THEN /\ users' = [users EXCEPT ![r.id] = UpdateUser(@, r.upd)]
            /\ resp' = [op |-> r.op, who |-> Absent, id |-> r.id, code |-> 200,
                        message |-> message, data |-> UpdateUser(users[r.id], r.upd)]
       ELSE /\ resp' = DuplicateKey(r.op, r.id)
            /\ UNCHANGED users
    /\ UNCHANGED <<store, nextId, now, open, auth>>

MeEmail(r) == r.op = "me" /\ CheckEmail(r, "Email is already taken")

MeWrite(r) == r.op = "me" /\ WriteUser(r, "Profile updated successfully")

\* ------------------------------------------------------ GET /api/users/:id
GetUser(id) ==
    /\ resp' = IF UserExists(id)
               THEN [op |-> "user", who |-> Absent, id |-> id, code |-> 200,
                     data |-> users[id]]
               ELSE UserNotFound("user", id)
    /\ UNCHANGED <<store, nextId, now, inflight, open, users, auth>>

\* ------------------------------------------------------ PUT /api/users/:id
\* await User.findById(req.params.id); no validator runs on the body
AdminPutFind(id, body) ==
    /\ IF ~UserExists(id)
       THEN /\ resp' = UserNotFound("userPut", id)
            /\ UNCHANGED inflight
       ELSE /\ HasSlot
            /\ inflight' = inflight (+)
                   SetToBag({[op |-> "userPut", id |-> id,
                              pc |-> IF body.email \notin {Absent, ""}
                                        /\ body.email # users[id].email
                                     THEN "email" ELSE "write",
                              upd |-> body]})
            /\ resp' = NoResp
    /\ UNCHANGED <<store, nextId, now, open, users, auth>>

AdminPutEmail(r) == r.op = "userPut" /\ CheckEmail(r, "Email is already taken")

AdminPutWrite(r) == r.op = "userPut" /\ WriteUser(r, "User updated successfully")

\* --------------------------------------------------- DELETE /api/users/:id
AdminDeleteFind(id) ==
    /\ IF ~UserExists(id)
       THEN /\ resp' = UserNotFound("userDelete", id)
            /\ UNCHANGED inflight
       ELSE /\ HasSlot
            /\ inflight' = inflight (+) SetToBag({[op |-> "userDelete", id |-> id]})
            /\ resp' = NoResp
    /\ UNCHANGED <<store, nextId, now, open, users, auth>>

\* a removal that takes the document out of the collection
Deactivated_Hard(doc) == NoUser

\* user.isActive = false
Deactivated(doc) == [doc EXCEPT !.isActive = FALSE]

\* await user.save(): the one modified path is written
AdminDeleteSave(r) ==
    /\ r.op = "userDelete"
    /\ inflight' = inflight (-) SetToBag({r})
    /\ users' = [users EXCEPT ![r.id] = Deactivated(@)]
    /\ resp' = [op |-> "userDelete", who |-> Absent, id |-> r.id, code |-> 200,
                message |-> "User deactivated successfully"]
    /\ UNCHANGED <<store, nextId, now, open, auth>>

\* ---------------------------------------------------------- GET /api/users
\* a listing that leaves the filter out
Listed_All(i) == UserExists(i)

\* { isActive: true }
Listed(i) == UserExists(i) /\ users[i].isActive

RECURSIVE NewestFirst(_)
\* .sort({ createdAt: -1 }): ids are handed out in creation order
NewestFirst(S) ==
    IF S = {} THEN <<>>
    ELSE LET m == CHOOSE x \in S : \A y \in S : y <= x
         IN <<m>> \o NewestFirst(S \ {m})

\* parseInt(req.query.page, 10) || 1, parseInt(req.query.limit, 10) || 10
UserPage(n) == IF n = AbsentNum \/ n = 0 THEN 1 ELSE n
UserLimit(n) == IF n = AbsentNum \/ n = 0 THEN 10 ELSE n

\* await User.countDocuments({ isActive: true })
UsersCount(page, limit) ==
    /\ HasSlot
    /\ inflight' = inflight (+)
           SetToBag({[op |-> "users", page |-> UserPage(page), limit |-> UserLimit(limit),
                      total |-> Cardinality({i \in UserIds : Listed(i)})]})
    /\ resp' = NoResp
    /\ UNCHANGED <<store, nextId, now, open, users, auth>>

\* await User.find({ isActive: true }).sort(...).limit(limit).skip(startIndex)
UsersFind(r) ==
    /\ r.op = "users"
    /\ inflight' = inflight (-) SetToBag({r})
    /\ LET startIndex == (r.page - 1) * r.limit
           ids == Slice(NewestFirst({i \in UserIds : Listed(i)}), startIndex, r.limit)
       IN resp' = [op |-> "users", who |-> Absent, id |-> NoId, code |-> 200,
                   count |-> Len(ids), total |-> r.total,
                   next |-> IF startIndex + r.limit < r.total THEN r.page + 1 ELSE 0,
                   prev |-> IF startIndex > 0 THEN r.page - 1 ELSE 0,
                   ids |-> ids,
                   data |-> [k \in 1..Len(ids) |-> users[ids[k]]]]
    /\ UNCHANGED <<store, nextId, now, open, users, auth>>

\* =============================================================== the browser
\* The auth context (AuthProvider), the cookies it keeps and the page the
\* router shows. A request the browser has sent waits in inflight with the
\* token its Authorization header carried; the server's answer is one of
\* Answers. auth.out is a history field: logout() has run and no login or
\* register has succeeded since.
Token == "tok"
Profiles == {"p1", "p2"}            \* response.user as the server returns it
Pages == {Home, LoginPage, Dashboard, TasksPage}
Answers == {"ok", "401", "error"}  \* 2xx, 401, any other failure

\* a location: the page and the redirect query parameter, if any
At(page) == [at |-> page, redirect |-> NoParam]
NoPush == [at |-> <<>>, redirect |-> NoParam]

RECURSIVE EncodeURIComponent(_)
EncodeURIComponent(s) ==
    IF s = <<>> THEN <<>>
    ELSE (IF Head(s) = "/" THEN <<"%", "2", "F">> ELSE <<Head(s)>>)
             \o EncodeURIComponent(Tail(s))

RECURSIVE DecodeQuery(_)
\* router.query.redirect: the parameter as the router decodes it
DecodeQuery(s) ==
    IF s = <<>> THEN <<>>
    ELSE IF Len(s) >= 3 /\ SubSeq(s, 1, 3) = <<"%", "2", "F">>
         THEN <<"/">> \o DecodeQuery(SubSeq(s, 4, Len(s)))
         ELSE <<Head(s)>> \o DecodeQuery(Tail(s))

\* a redirect that never carries the path
RedirectPath_Plain(currentPath, redirectTo) == At(redirectTo)

\* currentPath !== '/' ? `${redirectTo}?redirect=${encodeURIComponent(currentPath)}`
\*                     : redirectTo
RedirectPath(currentPath, redirectTo) ==
    IF currentPath # Home
    THEN [at |-> redirectTo, redirect |-> EncodeURIComponent(currentPath)]
    ELSE At(redirectTo)

\* what ProtectedRoute returns
Render(a, requireAuth) ==
    IF a.loading THEN "spinner"
    ELSE IF requireAuth /\ a.user = Null THEN "null"
    ELSE IF ~requireAuth /\ a.user # Null THEN "null"
    ELSE "children"

\* what ProtectedRoute's effect hands to router.push
Effect(a, requireAuth, redirectTo) ==
    IF a.loading THEN NoPush
    ELSE IF requireAuth /\ a.user = Null THEN RedirectPath(a.path.at, redirectTo)
    ELSE IF ~requireAuth /\ a.user # Null THEN At(Dashboard)
    ELSE NoPush

\* ProtectedRoute rendered on the current page, and its effect run; a page
\* that requires a user is never the page its redirect leads to
ProtectedRoute(requireAuth, redirectTo) ==
    /\ auth.pc # "reload"
    /\ requireAuth => (auth.path.at # redirectTo /\ auth.path.redirect = NoParam)
    /\ resp' = [op |-> "render", requireAuth |-> requireAuth, redirectTo |-> redirectTo,
                from |-> auth.path, out |-> Render(auth, requireAuth),
                push |-> Effect(auth, requireAuth, redirectTo)]
    /\ auth' = IF Effect(auth, requireAuth, redirectTo) = NoPush THEN auth
               ELSE [auth EXCEPT !.path = Effect(auth, requireAuth, redirectTo)]
    /\ UNCHANGED <<store, nextId, now, inflight, open, users>>

\* a link followed on the page
Navigate(page) ==
    /\ auth.pc = "ready"
    /\ auth.path # At(page)
    /\ auth' = [auth EXCEPT !.path = At(page)]
    /\ resp' = NoResp
    /\ UNCHANGED <<store, nextId, now, inflight, open, users>>

\* authHelpers.logout()
ClearCookies(a) == [a EXCEPT !.token = Null, !.cookie = Null]

\* the response interceptor: on a 401 both cookies go and the window is sent
\* to /auth/login, a page load that follows once the handlers have run
Interceptor(a, answer) ==
    IF answer = "401" THEN [ClearCookies(a) EXCEPT !.pc = "reload"] ELSE a

\* a finally block that leaves the flag as it is
Finally_Skip(a) == a

\* finally { setLoading(false) }
Finally(a) == [a EXCEPT !.loading = FALSE]

\* the answers the server can give a request that carried this token
AnswersTo(token) == IF token = Null THEN Answers \ {"ok"} ELSE Answers

Request(op, src) == [op |-> op, src |-> src, token |-> auth.token]

\* useEffect(() => { initAuth() }, []) up to its await
InitAuth ==
    /\ auth.pc = "init"
    /\ IF auth.token # Null /\ auth.cookie # Null
       THEN /\ inflight' = inflight (+) SetToBag({Request("getMe", "init")})
            /\ auth' = [auth EXCEPT !.pc = "ready"]
       ELSE /\ auth' = Finally([auth EXCEPT !.pc = "ready"])
            /\ UNCHANGED inflight
    /\ resp' = NoResp
    /\ UNCHANGED <<store, nextId, now, open, users>>

\* refreshUser() up to its await
RefreshUser ==
    /\ auth.pc = "ready" /\ HasSlot
    /\ inflight' = inflight (+) SetToBag({Request("getMe", "refresh")})
    /\ resp' = NoResp
    /\ UNCHANGED <<store, nextId, now, open, users, auth>>

\* logout()
LoggedOut(a) ==
    [ClearCookies(a) EXCEPT !.user = Null, !.path = At(LoginPage), !.out = TRUE]

\* authAPI.getMe() answered: the rest of initAuth or refreshUser
GetMeDone(r, answer, profile) ==
    /\ r.op = "getMe" /\ answer \in AnswersTo(r.token)
    /\ inflight' = inflight (-) SetToBag({r})
    /\ auth' =
         LET a == Interceptor(auth, answer)
             b == IF answer = "ok"
                  THEN [a EXCEPT !.user = profile, !.cookie = profile]
                  ELSE IF r.src = "init"
                  THEN [ClearCookies(a) EXCEPT !.user = Null]
                  ELSE LoggedOut(a)
         IN IF r.src = "init" THEN Finally(b) ELSE b
    /\ resp' = [op |-> r.op, src |-> r.src, answer |-> answer]
    /\ UNCHANGED <<store, nextId, now, open, users>>

\* login(credentials) and register(credentials) up to their await
Attempt(op) ==
    /\ auth.pc = "ready" /\ HasSlot
    /\ auth' = [auth EXCEPT !.loading = TRUE]
    /\ inflight' = inflight (+) SetToBag({Request(op, "form")})
    /\ resp' = NoResp
    /\ UNCHANGED <<store, nextId, now, open, users>>

\* router.query.redirect || '/dashboard' after a login, '/dashboard' after a
\* register
AfterLogin(op, path) ==
    IF op = "login" /\ path.redirect # NoParam
    THEN At(DecodeQuery(path.redirect)) ELSE At(Dashboard)

\* authAPI.login or authAPI.register answered: the rest of login or register
AttemptDone(r, answer, profile) ==
    /\ r.op \in {"login", "register"} /\ answer \in Answers
    /\ inflight' = inflight (-) SetToBag({r})
    /\ auth' =
         LET a == Interceptor(auth, answer)
         IN Finally(IF answer = "ok"
                    THEN [a EXCEPT !.token = Token, !.cookie = profile,
                                   !.user = profile, !.out = FALSE,
                                   !.path = AfterLogin(r.op, a.path)]
                    ELSE a)
    /\ resp' = [op |-> r.op, src |-> r.src, answer |-> answer]
    /\ UNCHANGED <<store, nextId, now, open, users>>

\* logout()
Logout ==
    /\ auth.pc = "ready"
    /\ auth' = LoggedOut(auth)
    /\ resp' = [op |-> "logout", src |-> "form", answer |-> "ok"]
    /\ UNCHANGED <<store, nextId, now, inflight, open, users>>

\* updateProfile(data) up to its await
UpdateProfile ==
    /\ auth.pc = "ready" /\ auth.user # Null /\ HasSlot
    /\ inflight' = inflight (+) SetToBag({Request("updateProfile", "form")})
    /\ resp' = NoResp
    /\ UNCHANGED <<store, nextId, now, open, users, auth>>

\* authAPI.updateProfile answered: the rest of updateProfile
UpdateProfileDone(r, answer, profile) ==
    /\ r.op = "updateProfile" /\ answer \in AnswersTo(r.token)
    /\ inflight' = inflight (-) SetToBag({r})
    /\ auth' =
         LET a == Interceptor(auth, answer)
         IN IF answer = "ok" THEN [a EXCEPT !.user = profile, !.cookie = profile] ELSE a
    /\ resp' = [op |-> r.op, src |-> r.src, answer |-> answer]
    /\ UNCHANGED <<store, nextId, now, open, users>>

\* window.location.href = '/auth/login': the page loads anew, its requests
\* are dropped, the provider mounts with the cookies as they are
Reload ==
    /\ auth.pc = "reload"
    /\ auth' = [Mounted(auth.token, auth.cookie, LoginPage) EXCEPT !.out = auth.out]
    /\ inflight' = EmptyBag
    /\ resp' = NoResp
    /\ UNCHANGED <<store, nextId, now, open, users>>

\* ----------------------------------------------------------- specifications
InitWith(n) ==
    /\ store = [i \in Ids |-> NoTask]
    /\ nextId = 1
    /\ now = 0
    /\ inflight = EmptyBag
    /\ resp = NoResp
    /\ open = n
    /\ users = [i \in UserIds |-> NoUser]
    /\ auth = Mounted(Null, Null, Home)

InFlight == BagToSet(inflight)

FullBody(title, description, status, priority, dueDate, tags, user) ==
    [title |-> title, description |-> description, status |-> status,
     priority |-> priority, dueDate |-> dueDate, tags |-> tags, user |-> user]

Body(title, status, priority, dueDate, user) ==
    FullBody(title, Absent, status, priority, dueDate, AbsentTags, user)

\* due dates a request can carry: missing, unparseable, or around the present
DueInputs == {AbsentDate, InvalidDate} \cup
             {t \in 0..(MaxTime + 1) : t >= now - 1 /\ t <= now + 1}

\* The whole API under concurrent clients, tasks without due dates.
AccessCreateBodies ==
    {Body("a", s, Absent, AbsentDate, u) : s \in {Absent, "completed"},
                                          u \in {Absent} \cup Users}
AccessUpdateBodies ==
    {Body(Absent, s, Absent, AbsentDate, Absent) :
        s \in {Absent, "completed", "pending", "bogus"}}

NextAccess ==
    \/ \E who \in Users, id \in Ids : GetTask(who, id)
    \/ \E who \in Users, body \in AccessCreateBodies : CreateTask(who, body)
    \/ \E r \in InFlight : CreateRespond(r)
    \/ \E who \in Users, id \in Ids, body \in AccessUpdateBodies : PutFind(who, id, body)
    \/ \E r \in InFlight : PutWrite(r)
    \/ \E who \in Users, id \in Ids : DeleteFind(who, id)
    \/ \E r \in InFlight : DeleteRemove(r)

SpecAccess == InitWith(MaxReqs) /\ [][NextAccess]_vars

\* Create and update with due dates while the clock runs.
Owner == "alice"
DueCreateBodies ==
    {Body(t, Absent, Absent, d, Absent) : t \in {"a", ""}, d \in DueInputs}
DueUpdateBodies ==
    {Body(Absent, Absent, Absent, d, Absent) :
        d \in {AbsentDate, NoDate, InvalidDate} \cup 0..(MaxTime + 1)}

NextDue ==
    \/ Tick
    \/ \E id \in Ids : GetTask(Owner, id)
    \/ \E body \in DueCreateBodies : CreateTask(Owner, body)
    \/ \E r \in InFlight : CreateRespond(r)
    \/ \E id \in Ids, body \in DueUpdateBodies : PutFind(Owner, id, body)
    \/ \E r \in InFlight : PutWrite(r)

SpecDue == InitWith(1) /\ [][NextDue]_vars

\* Listing while other requests create and delete tasks.
FullQuery(page, limit, status, priority, sortBy, sortOrder, search, tag, before, after) ==
    [page |-> page, limit |-> limit, status |-> status, priority |-> priority,
     sortBy |-> sortBy, sortOrder |-> sortOrder, search |-> search, tag |-> tag,
     dueBefore |-> before, dueAfter |-> after]

Query(page, limit, status, priority, sortOrder) ==
    FullQuery(page, limit, status, priority, Absent, sortOrder,
              Absent, Absent, AbsentDate, AbsentDate)
PageInputs  == {AbsentNum, 0} \cup 1..MaxPage
LimitInputs == {AbsentNum, 0, 1, MaxLimit + 1}
ListCreateBodies ==
    {Body("a", s, Absent, AbsentDate, Absent) : s \in {Absent, "completed"}}
ListQueries ==
    {Query(p, l, s, Absent, Absent) :
        p \in PageInputs \ {0}, l \in {AbsentNum, 1}, s \in {Absent, "pending"}}
    \cup {Query(p, l, Absent, Absent, Absent) : p \in {0, 1}, l \in LimitInputs}
    \cup {Query(p, AbsentNum, "bogus", Absent, Absent) : p \in {0, 1}}

NextList ==
    \/ \E who \in Users, body \in ListCreateBodies : CreateTask(who, body)
    \/ \E r \in InFlight : CreateRespond(r)
    \/ \E who \in Users, id \in Ids : DeleteFind(who, id)
    \/ \E r \in InFlight : DeleteRemove(r)
    \/ \E q \in ListQueries : ListCount(Owner, q)
    \/ \E r \in InFlight : ListFind(r)

SpecList == InitWith(MaxReqs) /\ [][NextList]_vars

\* Partial updates of tasks that have every field set.
FrameCreateBodies ==
    {FullBody("a", "d1", Absent, Absent, 1, <<"t1">>, Absent)}
FrameUpdateBodies ==
    {FullBody(Absent, Absent, Absent, Absent, AbsentDate, AbsentTags, Absent),
     FullBody("b", Absent, Absent, Absent, AbsentDate, AbsentTags, Absent),
     FullBody(Absent, "d2", "completed", Absent, AbsentDate, AbsentTags, Absent),
     FullBody(Absent, Absent, Absent, "high", NoDate, AbsentTags, Absent),
     FullBody(Absent, Absent, Absent, Absent, AbsentDate, <<>>, "bob")}

NextFrame ==
    \/ \E id \in Ids : GetTask(Owner, id)
    \/ \E body \in FrameCreateBodies : CreateTask(Owner, body)
    \/ \E r \in InFlight : CreateRespond(r)
    \/ \E who \in Users, id \in Ids, body \in FrameUpdateBodies : PutFind(who, id, body)
    \/ \E r \in InFlight : PutWrite(r)

SpecFrame == InitWith(1) /\ [][NextFrame]_vars

\* Every task route while tasks are deleted.
HardCreateBodies == {Body("a", Absent, Absent, AbsentDate, Absent)}
HardUpdateBodies == {Body("b", Absent, Absent, AbsentDate, Absent),
                     Body("", Absent, Absent, AbsentDate, Absent)}
HardQueries == {Query(AbsentNum, AbsentNum, Absent, Absent, Absent)}

NextHard ==
    \/ \E body \in HardCreateBodies : CreateTask(Owner, body)
    \/ \E r \in InFlight : CreateRespond(r)
    \/ \E id \in Ids : GetTask(Owner, id)
    \/ \E id \in Ids, body \in HardUpdateBodies : PutFind(Owner, id, body)
    \/ \E r \in InFlight : PutWrite(r)
    \/ \E id \in Ids : DeleteFind(Owner, id)
    \/ \E r \in InFlight : DeleteRemove(r)
    \/ \E q \in HardQueries : ListCount(Owner, q)
    \/ \E r \in InFlight : ListFind(r)
    \/ StatsAggregate(Owner)
    \/ \E r \in InFlight : StatsOverdue(r)
    \/ \E r \in InFlight : StatsDueToday(r)

SpecHard == InitWith(MaxReqs) /\ [][NextHard]_vars

\* Create, then read back, with every field of the payload in play.
RoundCreateBodies ==
    {FullBody(t, d, Absent, Absent, due, tags, Absent) :
        t \in {"a", " a ", "  "}, d \in {Absent, " a "},
        due \in {AbsentDate, AltForm + 1}, tags \in {AbsentTags, <<" a ", "t1">>}}
    \cup
    {FullBody("a", "d1", s, p, due, <<>>, Absent) :
        s \in {Absent, "in-progress"}, p \in {Absent, "high"},
        due \in {InvalidDate, 1}}

NextRound ==
    \/ \E body \in RoundCreateBodies : CreateTask(Owner, body)
    \/ \E r \in InFlight : CreateRespond(r)
    \/ \E id \in Ids : GetTask(Owner, id)

SpecRound == InitWith(1) /\ [][NextRound]_vars

\* Listing with the search, tag and due date filters.
FilterCreateBodies ==
    {FullBody("a", Absent, Absent, Absent, 1, <<"urgent-fix">>, Absent),
     FullBody("a", Absent, "completed", Absent, 2, <<"urgentfix">>, Absent),
     FullBody("URGENT", Absent, Absent, Absent, AbsentDate, AbsentTags, Absent),
     FullBody("a", "Urgent", "completed", Absent, 1, <<"t1", "urgent">>, Absent)}
FilterQueries ==
    {FullQuery(AbsentNum, AbsentNum, s, Absent, Absent, Absent, search, tag, before, after) :
        s \in {Absent, "completed"}, search \in {Absent, "urgent", "u.gent"},
        tag \in {Absent, "urgent"}, before \in {AbsentDate, 1},
        after \in {AbsentDate, 1, AltForm + 2}}

NextFilter ==
    \/ \E who \in Users, body \in FilterCreateBodies : CreateTask(who, body)
    \/ \E r \in InFlight : CreateRespond(r)
    \/ \E q \in FilterQueries : ListCount(Owner, q)
    \/ \E r \in InFlight : ListFind(r)

SpecFilter == InitWith(1) /\ [][NextFilter]_vars

\* Listing with parameters that are missing, well-formed or malformed.
NoQuery == FullQuery(AbsentNum, AbsentNum, Absent, Absent, Absent, Absent,
                     Absent, Absent, AbsentDate, AbsentDate)
ValidQueries ==
    {NoQuery} \cup
    {[NoQuery EXCEPT !.page = pg, !.limit = l] : pg \in {0, 1, 2}, l \in {0, 1, MaxLimit + 1}}
    \cup {[NoQuery EXCEPT !.status = x] : x \in {"pending", "bogus"}}
    \cup {[NoQuery EXCEPT !.priority = x] : x \in {"medium", "bogus"}}
    \cup {[NoQuery EXCEPT !.sortBy = x] : x \in {"createdAt", "bogus"}}
    \cup {[NoQuery EXCEPT !.sortOrder = x] : x \in {"asc", "desc", "bogus"}}
    \cup {[NoQuery EXCEPT !.dueBefore = x, !.status = st] :
               x \in {1, InvalidDate}, st \in {Absent, "bogus"}}
    \cup {[NoQuery EXCEPT !.dueAfter = x] : x \in {1, InvalidDate}}
ValidCreateBodies ==
    {Body("a", Absent, Absent, d, Absent) : d \in {AbsentDate, 1, 2}}
    \cup {Body("", "bogus", Absent, AbsentDate, Absent),
          Body("", Absent, Absent, 0, Absent),
          FullBody("  ", TooLong, "bogus", "bogus", InvalidDate, <<"t1", "  ">>, Absent)}
ValidUpdateBodies ==
    {Body("b", Absent, Absent, AbsentDate, Absent),
     Body("", "bogus", Absent, AbsentDate, Absent),
     FullBody("  ", TooLong, "bogus", "bogus", InvalidDate, <<"t1", "  ">>, Absent)}

NextValid ==
    \/ \E body \in ValidCreateBodies : CreateTask(Owner, body)
    \/ \E r \in InFlight : CreateRespond(r)
    \/ \E id \in Ids : DeleteFind(Owner, id)
    \/ \E r \in InFlight : DeleteRemove(r)
    \/ \E q \in ValidQueries : ListCount(Owner, q)
    \/ \E r \in InFlight : ListFind(r)
    \/ \E id \in Ids, body \in ValidUpdateBodies : PutFind(Owner, id, body)
    \/ \E r \in InFlight : PutWrite(r)

SpecValid == InitWith(1) /\ [][NextValid]_vars

\* Creating tasks with and without status and priority while the clock runs.
DefaultCreateBodies ==
    {Body("a", s, p, AbsentDate, Absent) :
        s \in {Absent} \cup Statuses, p \in {Absent, "low", "urgent"}}

NextDefault ==
    \/ Tick
    \/ \E body \in DefaultCreateBodies : CreateTask(Owner, body)
    \/ \E r \in InFlight : CreateRespond(r)
    \/ \E id \in Ids : GetTask(Owner, id)

SpecDefault == InitWith(1) /\ [][NextDefault]_vars

\* Tasks of every status whose due dates the clock passes.
OverdueCreateBodies ==
    {Body("a", s, Absent, d, Absent) :
        s \in {Absent} \cup Statuses, d \in {AbsentDate, now + 1}}

NextOverdue ==
    \/ Tick
    \/ \E body \in OverdueCreateBodies : CreateTask(Owner, body)
    \/ \E r \in InFlight : CreateRespond(r)
    \/ \E id \in Ids : GetTask(Owner, id)

SpecOverdue == InitWith(1) /\ [][NextOverdue]_vars

\* Stats, one request at a time, over tasks of both users with due dates.
CountCreateBodies ==
    {Body("a", s, Absent, d, Absent) :
        s \in {Absent, "completed", "cancelled"}, d \in {AbsentDate, now + 1}}

NextCount ==
    \/ Tick
    \/ \E who \in Users, body \in CountCreateBodies : CreateTask(who, body)
    \/ \E r \in InFlight : CreateRespond(r)
    \/ StatsAggregate(Owner)
    \/ \E r \in InFlight : StatsOverdue(r)
    \/ \E r \in InFlight : StatsDueToday(r)

SpecCount == InitWith(1) /\ [][NextCount]_vars

\* Updates with and without status on tasks with and without completedAt.
KeepCreateBodies ==
    {Body("a", s, Absent, AbsentDate, Absent) : s \in {Absent, "completed"}}
KeepUpdateBodies ==
    {FullBody("b", Absent, Absent, Absent, AbsentDate, AbsentTags, Absent),
     FullBody(Absent, "d2", Absent, "high", NoDate, <<"t2">>, Absent),
     FullBody(Absent, Absent, "pending", Absent, AbsentDate, AbsentTags, Absent)}

NextKeep ==
    \/ Tick
    \/ \E body \in KeepCreateBodies : CreateTask(Owner, body)
    \/ \E r \in InFlight : CreateRespond(r)
    \/ \E id \in Ids, body \in KeepUpdateBodies : PutFind(Owner, id, body)
    \/ \E r \in InFlight : PutWrite(r)

SpecKeep == InitWith(1) /\ [][NextKeep]_vars

\* Updates of one task that overlap in time and in the fields they write.
RaceCreateBodies == {FullBody("a", "d1", Absent, Absent, AbsentDate, AbsentTags, Absent)}
RaceUpdateBodies ==
    {FullBody("b", "d2", Absent, Absent, AbsentDate, AbsentTags, Absent),
     FullBody("c", Absent, "completed", Absent, AbsentDate, AbsentTags, Absent)}

NextRace ==
    \/ \E body \in RaceCreateBodies : CreateTask(Owner, body)
    \/ \E r \in InFlight : CreateRespond(r)
    \/ \E id \in Ids, body \in RaceUpdateBodies : PutFind(Owner, id, body)
    \/ \E r \in InFlight : PutWrite(r)

SpecRace == InitWith(MaxReqs) /\ [][NextRace]_vars

\* Listing page by page in the order of a field that tasks can share.
SortCreateBodies ==
    {Body(t, Absent, p, AbsentDate, Absent) : t \in {"a", "b"}, p \in {Absent, "high"}}
SortQueries ==
    {FullQuery(pg, l, Absent, Absent, by, o, Absent, Absent, AbsentDate, AbsentDate) :
        pg \in 1..MaxPage, l \in {AbsentNum, 1},
        by \in {Absent, "title", "priority"}, o \in {Absent, "asc"}}

NextSort ==
    \/ \E body \in SortCreateBodies : CreateTask(Owner, body)
    \/ \E r \in InFlight : CreateRespond(r)
    \/ \E q \in SortQueries : ListCount(Owner, q)
    \/ \E r \in InFlight : ListFind(r)

SpecSort == InitWith(1) /\ [][NextSort]_vars

\* Register, profile update and admin update under concurrent clients.
UsersRegisterBodies ==
    {UserBody("al", e, Absent, Absent) : e \in Emails} \cup
    {UserBody("x", BadEmail, Absent, Absent)}
UsersMeBodies ==
    {UserBody(Absent, e, Absent, Absent) : e \in {"a@x", "b@x", BadEmail}}
UsersAdminBodies ==
    {UserBody(Absent, e, Absent, Absent) : e \in {"A@x", "b@x"}}

NextUsers ==
    \/ \E body \in UsersRegisterBodies : RegisterFind(body)
    \/ \E r \in InFlight : RegisterCreate(r)
    \/ \E who \in UserIds, body \in UsersMeBodies : MeFind(who, body)
    \/ \E r \in InFlight : MeEmail(r)
    \/ \E r \in InFlight : MeWrite(r)
    \/ \E id \in UserIds, body \in UsersAdminBodies : AdminPutFind(id, body)
    \/ \E r \in InFlight : AdminPutEmail(r)
    \/ \E r \in InFlight : AdminPutWrite(r)

SpecUsers == InitWith(MaxReqs) /\ [][NextUsers]_vars

\* Users registered, read, listed, deactivated and reactivated by an admin.
SoftRegisterBodies == {UserBody("al", e, Absent, Absent) : e \in {"a@x", "b@x"}}
SoftAdminBodies == {UserBody(Absent, Absent, "admin", "true")}

NextSoft ==
    \/ \E body \in SoftRegisterBodies : RegisterFind(body)
    \/ \E r \in InFlight : RegisterCreate(r)
    \/ \E id \in UserIds : GetUser(id)
    \/ \E id \in UserIds, body \in SoftAdminBodies : AdminPutFind(id, body)
    \/ \E r \in InFlight : AdminPutWrite(r)
    \/ \E id \in UserIds : AdminDeleteFind(id)
    \/ \E r \in InFlight : AdminDeleteSave(r)
    \/ \E page \in {AbsentNum, 2}, limit \in {AbsentNum, 1} : UsersCount(page, limit)
    \/ \E r \in InFlight : UsersFind(r)

SpecSoft == InitWith(MaxReqs) /\ [][NextSoft]_vars

\* The browser: a page load with any cookies, then forms, links and answers.
InitClient ==
    /\ store = [i \in Ids |-> NoTask]
    /\ nextId = 1
    /\ now = 0
    /\ inflight = EmptyBag
    /\ resp = NoResp
    /\ open = MaxReqs
    /\ users = [i \in UserIds |-> NoUser]
    /\ \E token \in {Null, Token}, cookie \in {Null} \cup Profiles, page \in Pages :
           auth = Mounted(token, cookie, page)

NextClient ==
    \/ InitAuth
    \/ RefreshUser
    \/ \E r \in InFlight, answer \in Answers, p \in Profiles : GetMeDone(r, answer, p)
    \/ \E op \in {"login", "register"} : Attempt(op)
    \/ \E r \in InFlight, answer \in Answers, p \in Profiles : AttemptDone(r, answer, p)
    \/ Logout
    \/ UpdateProfile
    \/ \E r \in InFlight, answer \in Answers, p \in Profiles : UpdateProfileDone(r, answer, p)
    \/ Reload
    \/ \E page \in Pages : Navigate(page)
    \/ \E requireAuth \in BOOLEAN : ProtectedRoute(requireAuth, LoginPage)

SpecClient == InitClient /\ [][NextClient]_vars

\* a request that holds the loading flag up is answered
Settle ==
    \E r \in InFlight, answer \in Answers, p \in Profiles :
        \/ r.op = "getMe" /\ r.src = "init" /\ GetMeDone(r, answer, p)
        \/ AttemptDone(r, answer, p)

\* The browser when every effect runs, every page load completes and every
\* request that holds the loading flag up is answered.
SpecClientFair ==
    SpecClient /\ WF_vars(InitAuth) /\ WF_vars(Reload) /\ WF_vars(Settle)

\* One request at a time, tasks in every status.
SeqCreateBodies ==
    {Body("a", s, Absent, AbsentDate, Absent) :
        s \in {Absent, "in-progress", "completed", "cancelled"}}
SeqUpdateBodies ==
    {Body(Absent, s, Absent, AbsentDate, Absent) : s \in {"pending", "cancelled"}}

NextSeq ==
    \/ \E who \in Users, body \in SeqCreateBodies : CreateTask(who, body)
    \/ \E r \in InFlight : CreateRespond(r)
    \/ \E who \in Users, id \in Ids, body \in SeqUpdateBodies : PutFind(who, id, body)
    \/ \E r \in InFlight : PutWrite(r)
    \/ \E who \in Users, id \in Ids : DeleteFind(who, id)
    \/ \E r \in InFlight : DeleteRemove(r)
    \/ \E who \in Users : StatsAggregate(who)
    \/ \E r \in InFlight : StatsOverdue(r)
    \/ \E r \in InFlight : StatsDueToday(r)

SpecSeq == InitWith(1) /\ [][NextSeq]_vars

\* One request at a time, two users, due dates and a running clock.
OwnerCreateBodies ==
    {Body("a", Absent, Absent, d, u) :
        d \in {AbsentDate, now + 1}, u \in {Absent} \cup Users}
OwnerQueries ==
    {Query(AbsentNum, AbsentNum, s, Absent, o) :
        s \in {Absent, "pending"}, o \in {Absent, "asc"}}

NextOwner ==
    \/ Tick
    \/ \E who \in Users, body \in OwnerCreateBodies : CreateTask(who, body)
    \/ \E r \in InFlight : CreateRespond(r)
    \/ \E who \in Users, q \in OwnerQueries : ListCount(who, q)
    \/ \E r \in InFlight : ListFind(r)
    \/ \E who \in Users : StatsAggregate(who)
    \/ \E r \in InFlight : StatsOverdue(r)
    \/ \E r \in InFlight : StatsDueToday(r)

SpecOwner == InitWith(1) /\ [][NextOwner]_vars

\* Statistics while the same owner creates, completes and deletes tasks and
\* the clock runs.
StatsCreateBodies == {Body("a", Absent, Absent, d, Absent) : d \in {AbsentDate, now + 1}}
StatsUpdateBodies == {Body(Absent, "completed", Absent, AbsentDate, Absent)}

NextStats ==
    \/ Tick
    \/ \E body \in StatsCreateBodies : CreateTask(Owner, body)
    \/ \E r \in InFlight : CreateRespond(r)
    \/ \E id \in Ids, body \in StatsUpdateBodies : PutFind(Owner, id, body)
    \/ \E r \in InFlight : PutWrite(r)
    \/ \E id \in Ids : DeleteFind(Owner, id)
    \/ \E r \in InFlight : DeleteRemove(r)
    \/ StatsAggregate(Owner)
    \/ \E r \in InFlight : StatsOverdue(r)
    \/ \E r \in InFlight : StatsDueToday(r)

SpecStats == InitWith(MaxReqs) /\ [][NextStats]_vars

\* ------------------------------------------------------------------ claims
OwnedBy(id, who) == Exists(id) /\ store[id].user = who

\* what the client sees of a response
Observable(r) == [code |-> r.code, message |-> r.message, data |-> r.data]

\* C1: every stored task has completedAt set if and only if its status is
\* completed, after every create and every update.
C1_CompletedAtIffCompleted ==
    \A id \in Ids :
        Exists(id) => (store[id].completedAt # NoDate <=> store[id].status = "completed")

\* C2: a GET /tasks/:id of a task the requester does not own answers 404
\* 'Task not found' without data, the very response given for an id that no
\* task has.
C2_ForeignGetIsNotFound ==
    (resp.op = "get" /\ ~OwnedBy(resp.id, resp.who)) =>
        Observable(resp) = [code |-> 404, message |-> "Task not found", data |-> NoTask]

C2_Witness ==
    /\ resp.op = "get"
    /\ Exists(resp.id)
    /\ store[resp.id].user # resp.who
    /\ resp.code = 404

C9_CreateDueDateChecked ==
    [][ \A body \in DueCreateBodies :
          (CreateTask(Owner, body) /\ CreateErrors(body) = {}) =>
              IF body.dueDate # AbsentDate /\ body.dueDate <= now
              THEN /\ store' = store /\ nextId' = nextId /\ inflight' = inflight
                   /\ resp'.message = "ValidationError"
                   /\ "dueDate" \in resp'.errors
              ELSE /\ nextId' = nextId + 1
                   /\ store'[nextId] # NoTask
                   /\ store'[nextId].dueDate = CreateDueDate(body)
      ]_vars

C9_Witness ==
    /\ resp.op = "create"
    /\ resp.message = "ValidationError"
    /\ resp.errors = {"dueDate"}
    /\ now > 0

\* C10 as claimed: the write of a PUT by the owner that carries a non-null,
\* parseable dueDate is accepted and persisted whatever the present time is.
C10_UpdateDueDateUnchecked ==
    [][ \A r \in InFlight :
          (PutWrite(r) /\ Exists(r.id) /\ r.upd.dueDate \notin {AbsentDate, NoDate}) =>
              /\ resp'.code = 200
              /\ store'[r.id].dueDate = r.upd.dueDate
      ]_vars

\* C10 amended: the write of a PUT by the owner validates a non-null dueDate
\* against the present, as create does: a dueDate strictly in the future (or
\* null) is persisted, any other is rejected with a validation error on
\* dueDate and the task stays as it was.
C10_UpdateDueDateChecked ==
    [][ \A r \in InFlight :
          (PutWrite(r) /\ Exists(r.id) /\ r.upd.dueDate # AbsentDate) =>
              IF r.upd.dueDate = NoDate \/ r.upd.dueDate > now
              THEN /\ resp'.code = 200
                   /\ store'[r.id].dueDate = r.upd.dueDate
              ELSE /\ store' = store
                   /\ resp'.message = "ValidationError"
                   /\ "dueDate" \in resp'.errors
      ]_vars

C10_Witness ==
    /\ resp.op = "put"
    /\ resp.message = "ValidationError"
    /\ resp.errors = {"dueDate"}
    /\ Exists(resp.id)
    /\ store[resp.id].dueDate # NoDate
    /\ store[resp.id].dueDate < now

\* the page and limit a valid query asks for, defaults 1 and 10
AskedPage(q)  == IF q.page = AbsentNum THEN 1 ELSE q.page
AskedLimit(q) == IF q.limit = AbsentNum THEN 10 ELSE q.limit

\* C5: in every list response the number of items is
\* min(limit, total - (page-1)*limit) when that is positive and 0 otherwise,
\* also when tasks are created or deleted between the count and the find.
C5_CountAgreesWithTotal ==
    (resp.op = "list" /\ resp.code = 200) =>
        LET rest == resp.total - (AskedPage(resp.q) - 1) * AskedLimit(resp.q)
        IN  resp.count = IF rest > 0 THEN Min(AskedLimit(resp.q), rest) ELSE 0

\* C6: pagination.next is present exactly when (page-1)*limit + limit < total
\* and is then {page+1, limit}; pagination.prev is present exactly when
\* page > 1 and is then {page-1, limit}.
C6_PaginationLinks ==
    (resp.op = "list" /\ resp.code = 200) =>
        LET page  == AskedPage(resp.q)
            limit == AskedLimit(resp.q)
        IN  /\ resp.next = IF (page - 1) * limit + limit < resp.total
                           THEN [page |-> page + 1, limit |-> limit] ELSE NoLink
            /\ resp.prev = IF page > 1
                           THEN [page |-> page - 1, limit |-> limit] ELSE NoLink

C6_Witness ==
    /\ resp.op = "list"
    /\ resp.code = 200
    /\ resp.next # NoLink
    /\ resp.count = 1

Owned(who) == {id \in Ids : OwnedBy(id, who)}

\* C4: every item of a list response and every task counted by a stats
\* response belongs to the requester, and a created task belongs to the
\* requester whatever the request body holds.
C4_OwnerIsThePrincipal ==
    /\ (resp.op = "list" /\ resp.code = 200) =>
           \A i \in 1..Len(resp.data) : resp.data[i].user = resp.who
    /\ resp.op = "stats" =>
           /\ resp.data["total"] = Cardinality(Owned(resp.who))
           /\ resp.overdue =
                  Cardinality({id \in Owned(resp.who) :
                      /\ store[id].dueDate # NoDate
                      /\ store[id].dueDate < resp.t1
                      /\ NotDone(store[id])})
           /\ resp.dueToday =
                  Cardinality({id \in Owned(resp.who) :
                      /\ store[id].dueDate # NoDate
                      /\ store[id].dueDate \div DayLen = resp.t2 \div DayLen
                      /\ NotDone(store[id])})
    /\ \A r \in InFlight : r.op = "create" => store[r.id].user = r.who
    /\ (resp.op = "create" /\ resp.code = 201) => resp.data.user = resp.who

C4_Witness ==
    /\ resp.op = "stats"
    /\ resp.overdue = 1
    /\ \E id \in Ids :
          /\ Exists(id) /\ store[id].user # resp.who
          /\ store[id].dueDate # NoDate /\ store[id].dueDate < resp.t1

\* C7: each status count of a stats response is the number of the
\* requester's tasks in that status, 0 when there is none, and total is the
\* sum of the four.
C7_StatusCounts ==
    resp.op = "stats" =>
        /\ \A s \in Statuses :
               resp.data[s] = Cardinality({id \in Owned(resp.who) : store[id].status = s})
        /\ resp.data["total"] = resp.data["pending"] + resp.data["in-progress"]
                                  + resp.data["completed"] + resp.data["cancelled"]

C7_Witness ==
    /\ resp.op = "stats"
    /\ resp.data["completed"] = 1
    /\ resp.data["cancelled"] = 1
    /\ resp.data["pending"] = 0

\* C8: in every stats response overdue <= total and dueToday <= total, also
\* when the owner's other requests or the clock move between the three reads.
C8_CountsWithinTotal ==
    resp.op = "stats" =>
        /\ resp.overdue <= resp.data["total"]
        /\ resp.dueToday <= resp.data["total"]
\* C11: a successful PUT changes exactly the fields its body provides, each to
\* the value provided; every field the body leaves out keeps its stored value,
\* the owner stays the owner, and no other task is touched.
C11_UpdateFrame ==
    [][\A r \in InFlight :
         (PutWrite(r) /\ resp'.code = 200 /\ Exists(r.id)) =>
           LET old == store[r.id]
               new == store'[r.id]
               u   == r.upd
           IN  /\ new.user = old.user
               /\ new.title = IF u.title = Absent THEN old.title ELSE u.title
               /\ new.description =
                      IF u.description = Absent THEN old.description ELSE u.description
               /\ new.status = IF u.status = Absent THEN old.status ELSE u.status
               /\ new.priority = IF u.priority = Absent THEN old.priority ELSE u.priority
               /\ new.dueDate = IF u.dueDate = AbsentDate THEN old.dueDate ELSE u.dueDate
               /\ new.tags = IF u.tags = AbsentTags THEN old.tags ELSE u.tags
               /\ resp'.id = r.id
               /\ \A other \in Ids \ {r.id} : store'[other] = store[other]
      ]_vars

\* a PUT of the title alone has answered with the new title and the old rest
C11_Witness ==
    /\ resp.op = "put" /\ resp.code = 200 /\ resp.data # NoTask
    /\ resp.data.title = "b" /\ resp.data.description = "d1"
    /\ resp.data.tags = <<"t1">> /\ resp.data.dueDate = 1
    /\ resp.data.user = Owner
\* C12: a PUT that passed validation answers 404 or a success that carries
\* the task as stored after the update; a success never carries no task, also
\* when the task is deleted between the handler's lookup and its write.
C12_PutSuccessCarriesTask ==
    (resp.op = "put" /\ resp.code # 400) =>
        \/ resp.code = 404
        \/ /\ resp.code = 200
           /\ resp.data # NoTask
           /\ resp.data = store[resp.id]
\* an id that was given to a task which is no longer stored
Gone(id) == id < nextId /\ ~Exists(id)

Contains(text, search) ==
    LET p == Chars(search)
        t == Chars(text)
    IN  \E i \in 1..(Len(t) - Len(p) + 1) :
            \A k \in 1..Len(p) : Lower(p[k]) = Lower(t[i + k - 1])

\* C15: the tasks a list query matches are exactly the owner's tasks that
\* satisfy every filter present: status and priority equal, tag a member of
\* tags, dueDate within dueBefore and dueAfter, and search a case-insensitive
\* substring of the title, the description or some tag.
C15_FilterConjunction ==
    \A q \in FilterQueries :
        Matching(Owner, q) =
            {id \in Ids :
                /\ Exists(id)
                /\ store[id].user = Owner
                /\ q.status # Absent => store[id].status = q.status
                /\ q.priority # Absent => store[id].priority = q.priority
                /\ q.tag # Absent => \E i \in 1..Len(store[id].tags) : store[id].tags[i] = q.tag
                /\ q.dueBefore # AbsentDate =>
                       (store[id].dueDate # NoDate /\ store[id].dueDate <= q.dueBefore % AltForm)
                /\ q.dueAfter # AbsentDate =>
                       (store[id].dueDate # NoDate /\ store[id].dueDate >= q.dueAfter % AltForm)
                /\ q.search # Absent =>
                       \/ Contains(store[id].title, q.search)
                       \/ /\ store[id].description # Absent
                          /\ Contains(store[id].description, q.search)
                       \/ \E i \in 1..Len(store[id].tags) :
                              Contains(store[id].tags[i], q.search)}
\* a list query the validation of GET /tasks is to reject
Malformed(q) ==
    \/ q.status \notin {Absent, "pending", "in-progress", "completed", "cancelled"}
    \/ q.priority \notin {Absent, "low", "medium", "high", "urgent"}
    \/ q.sortBy \notin {Absent, "createdAt", "updatedAt", "dueDate", "title", "priority"}
    \/ q.sortOrder \notin {Absent, "asc", "desc"}
    \/ q.page # AbsentNum /\ q.page < 1
    \/ q.limit # AbsentNum /\ (q.limit < 1 \/ q.limit > 100)
    \/ q.dueBefore = InvalidDate
    \/ q.dueAfter = InvalidDate

\* C16: GET /tasks answers 400 "Validation failed" and starts no store query
\* when an enum parameter, page, limit or a date parameter is malformed, and
\* otherwise starts its queries; with no parameter at all it uses page 1,
\* limit 10, sortBy createdAt and sortOrder desc.
C16_ListValidation ==
    [][\A q \in ValidQueries :
         ListCount(Owner, q) =>
           /\ IF Malformed(q)
              THEN /\ resp'.code = 400
                   /\ resp'.message = "Validation failed"
                   /\ inflight' = inflight
              ELSE /\ resp' = NoResp
                   /\ inflight' # inflight
           /\ q = NoQuery =>
                 /\ Page(q) = 1 /\ Limit(q) = 10
                 /\ SortBy(q) = "createdAt" /\ SortOrder(q) = -1
      ]_vars
\* the fields of a list query that break a validation rule
ListViolations(q) ==
    {f \in {"status", "priority", "sortBy", "sortOrder", "page", "limit",
            "dueBefore", "dueAfter"} :
        \/ f = "status" /\ q.status \notin {Absent} \cup Statuses
        \/ f = "priority" /\ q.priority \notin {Absent} \cup Priorities
        \/ f = "sortBy" /\ q.sortBy \notin {Absent} \cup SortFields
        \/ f = "sortOrder" /\ q.sortOrder \notin {Absent, "asc", "desc"}
        \/ f = "page" /\ q.page # AbsentNum /\ q.page < 1
        \/ f = "limit" /\ q.limit # AbsentNum /\ (q.limit < 1 \/ q.limit > 100)
        \/ f = "dueBefore" /\ q.dueBefore = InvalidDate
        \/ f = "dueAfter" /\ q.dueAfter = InvalidDate}

\* the fields of a create or update body that break a validation rule at time t
BodyViolations(body, t) ==
    {f \in {"title", "description", "status", "priority", "dueDate", "tags"} :
        \/ f = "title" /\ body.title \in {"", "  "}
        \/ f = "description" /\ body.description = TooLong
        \/ f = "status" /\ body.status \notin {Absent} \cup Statuses
        \/ f = "priority" /\ body.priority \notin {Absent} \cup Priorities
        \/ f = "dueDate" /\ (body.dueDate = InvalidDate \/
                             (body.dueDate >= 0 /\ body.dueDate % AltForm <= t))
        \/ f = "tags" /\ \E i \in 1..Len(body.tags) : body.tags[i] \in {"", "  "}}

\* C17: a create, update or list request that breaks the validation rules of
\* two or more fields is answered by one 400 that lists every one of those
\* fields, and the store is as it was.
C17_AllViolationsListed ==
    [][/\ \A body \in ValidCreateBodies :
            (CreateTask(Owner, body) /\ Cardinality(BodyViolations(body, now)) >= 2) =>
                /\ resp'.code = 400
                /\ resp'.errors = BodyViolations(body, now)
                /\ store' = store
       /\ \A id \in Ids, body \in ValidUpdateBodies :
            (PutFind(Owner, id, body) /\ Cardinality(BodyViolations(body, now)) >= 2) =>
                /\ resp'.code = 400
                /\ resp'.errors = BodyViolations(body, now)
                /\ store' = store
       /\ \A q \in ValidQueries :
            (ListCount(Owner, q) /\ Cardinality(ListViolations(q)) >= 2) =>
                /\ resp'.code = 400
                /\ resp'.errors = ListViolations(q)
                /\ store' = store
      ]_vars
\* C18: a task stored from a valid create payload has status pending when the
\* payload has no status and priority medium when it has no priority, has the
\* payload's status and priority otherwise, and has completedAt set (to the
\* time of creation) exactly when it is created completed.
C18_CreateDefaults ==
    [][\A body \in DefaultCreateBodies, id \in Ids :
         (CreateTask(Owner, body) /\ id = nextId /\ nextId' # nextId) =>
            /\ store'[id].status =
                   (IF body.status = Absent THEN "pending" ELSE body.status)
            /\ store'[id].priority =
                   (IF body.priority = Absent THEN "medium" ELSE body.priority)
            /\ store'[id].completedAt =
                   (IF body.status = "completed" THEN now ELSE NoDate)
      ]_vars

\* a task created completed, without priority, after the clock has moved
C18_Witness ==
    \E id \in Ids :
        /\ Exists(id)
        /\ store[id].status = "completed" /\ store[id].completedAt = 1
        /\ store[id].priority = "medium"
\* C19: for every stored task and every time, the server's isOverdue virtual
\* and the client's taskUtils.isOverdue both say: the task has a dueDate, the
\* dueDate is before now, and the status is neither completed nor cancelled.
C19_OverdueAgrees ==
    \A id \in Ids :
        Exists(id) =>
            LET overdue == /\ store[id].dueDate # NoDate
                           /\ store[id].dueDate < now
                           /\ store[id].status \notin {"completed", "cancelled"}
            IN  /\ IsOverdueVirtual(store[id], now) = overdue
                /\ TaskUtilsIsOverdue(store[id], now) = overdue

\* C20: a stats response reports an overdue count and a dueToday count that
\* were computed against one reading of the clock.
C20_SingleNow ==
    resp.op = "stats" => resp.t1 = resp.t2
\* the owner's tasks that are neither completed nor cancelled and are due in [from, to)
OpenDue(who, from, to) ==
    {id \in Ids : /\ OwnedBy(id, who)
                  /\ store[id].status \notin {"completed", "cancelled"}
                  /\ store[id].dueDate # NoDate
                  /\ from <= store[id].dueDate /\ store[id].dueDate < to}

\* C21: over a store that does not change during the call, a stats response
\* has overdue = the number of the owner's open tasks due before the instant
\* the overdue query read, and dueToday = the number of the owner's open tasks
\* due within the calendar day of the instant the dueToday query read; both
\* come on top of the status buckets, whose total counts every task of the owner.
C21_StatsCounts ==
    resp.op = "stats" =>
        /\ resp.overdue = Cardinality(OpenDue(resp.who, 0, resp.t1))
        /\ resp.dueToday =
               Cardinality(OpenDue(resp.who, resp.t2 - (resp.t2 % DayLen),
                                   resp.t2 - (resp.t2 % DayLen) + DayLen))
        /\ resp.data.total = Cardinality({id \in Ids : OwnedBy(id, resp.who)})

\* a stats response that counts an overdue task while a cancelled one is past due
C21_Witness ==
    /\ resp.op = "stats" /\ resp.overdue = 1 /\ resp.data.total = 2
    /\ \E id \in Ids : /\ OwnedBy(id, Owner) /\ store[id].status = "cancelled"
                        /\ store[id].dueDate # NoDate /\ store[id].dueDate < resp.t1
\* C22: an update whose payload has no status leaves the task's completedAt
\* as it was, set or unset, and answers with that same completedAt.
C22_CompletedAtKept ==
    [][\A r \in InFlight :
         (PutWrite(r) /\ r.upd.status = Absent /\ Exists(r.id)) =>
            /\ store'[r.id].completedAt = store[r.id].completedAt
            /\ resp'.code = 200
            /\ resp'.data.completedAt = store[r.id].completedAt
      ]_vars

\* an update of the title alone has answered for a task whose completedAt is set
C22_Witness ==
    /\ resp.op = "put" /\ resp.code = 200 /\ resp.data # NoTask
    /\ resp.data.title = "b" /\ resp.data.status = "completed"
    /\ resp.data.completedAt # NoDate
\* the document that results from writing update u over document d
Merged(d, u) ==
    [user        |-> d.user,
     completedAt |-> d.completedAt,
     title       |-> IF u.title = Absent THEN d.title ELSE u.title,
     description |-> IF u.description = Absent THEN d.description ELSE u.description,
     status      |-> IF u.status = Absent THEN d.status ELSE u.status,
     priority    |-> IF u.priority = Absent THEN d.priority ELSE u.priority,
     dueDate     |-> IF u.dueDate = AbsentDate THEN d.dueDate ELSE u.dueDate,
     tags        |-> IF u.tags = AbsentTags THEN d.tags ELSE u.tags]

\* C23: when two PUTs of one task are both past their lookup, the write of
\* the first stores the task merged with its update, and the write of the
\* second then stores that merged with the second update: the two updates
\* applied one after the other in the order of their writes, every field the
\* later write provides kept, every other field as the earlier write left it.
C23_LastWriteWins ==
    [][\A r1, r2 \in InFlight :
         (/\ r1.op = "put" /\ r2.op = "put" /\ r1.id = r2.id
          /\ (r1 # r2 \/ CopiesIn(r1, inflight) > 1)
          /\ Exists(r1.id)
          /\ PutWrite(r1)) =>
            /\ store'[r1.id] = Merged(store[r1.id], r1.upd)
            /\ r2 \in BagToSet(inflight')
            /\ ApplyUpdate(store'[r1.id], r2.upd)
                   = Merged(Merged(store[r1.id], r1.upd), r2.upd)
      ]_vars

\* one PUT has written and answered while another PUT of the same task, with
\* another body, is between its lookup and its write
C23_Witness ==
    /\ resp.op = "put" /\ resp.code = 200 /\ resp.data # NoTask
    /\ resp.data.description = "d2"
    /\ \E r \in InFlight : r.op = "put" /\ r.id = resp.id /\ r.upd.title = "c"
\* the ids a page holds
PageIds(page) == {page[i] : i \in 1..Len(page)}

\* C24: for the store as it is and any one query, the list has one possible
\* order (ties in the sort field are broken the same way every time), so a
\* repeated query returns the same page, and pages of one size, whichever
\* execution returns each, share no task.
C24_StableOrder ==
    \A q \in SortQueries :
        /\ Cardinality(Finds(Owner, q)) = 1
        /\ \A k \in 1..MaxPage :
              k # q.page =>
                \A p1 \in Finds(Owner, q), p2 \in Finds(Owner, [q EXCEPT !.page = k]) :
                    PageIds(p1) \cap PageIds(p2) = {}

\* C28: a DELETE answers 'Task deleted successfully' only when its removal
\* took a stored task out of the collection; of two interleaved DELETEs of one
\* task the one whose removal finds the task already gone answers 404, so no
\* task is reported deleted twice.
C28_OneDeleteSucceeds ==
    [][\A r \in InFlight :
         (r.op = "delete" /\ DeleteRemove(r)) =>
            IF Exists(r.id)
            THEN resp'.code = 200 /\ ~Exists(r.id)'
            ELSE resp'.code = 404
      ]_vars

\* no two documents of a users collection hold one address
EmailsUnique(u) ==
    \A i, j \in UserIds :
        (u[i] # NoUser /\ u[j] # NoUser /\ i # j) => u[i].email # u[j].email

\* another user than self holds the address, whatever its case
HeldByOther(e, self) ==
    \E i \in UserIds : UserExists(i) /\ i # self /\ users[i].email = LowerEmail(e)

ActiveUsers == {i \in UserIds : UserExists(i) /\ users[i].isActive}

Admitted(requireAuth) ==
    ~auth.loading /\ (requireAuth => auth.user # Null) /\ (~requireAuth => auth.user = Null)

\* what ProtectedRoute shows, and that it pushes nothing when it shows the
\* spinner or its children
RendersByState(requireAuth) ==
    /\ resp'.out = (IF Admitted(requireAuth) THEN "children"
                    ELSE IF auth.loading THEN "spinner" ELSE "null")
    /\ (auth.loading \/ Admitted(requireAuth)) =>
           resp'.push = NoPush /\ auth' = auth

\* C27 as stated: children are rendered exactly when loading is false and the
\* requirement is met, otherwise the spinner (loading) or nothing; and when not
\* loading with the requirement unmet the router is sent to the login page
\* with the current path as redirect parameter (requireAuth) or to /dashboard.
C27_RedirectCarriesPath ==
    [][\A requireAuth \in BOOLEAN :
         ProtectedRoute(requireAuth, LoginPage) =>
            /\ RendersByState(requireAuth)
            /\ (~auth.loading /\ ~Admitted(requireAuth)) =>
                   /\ resp'.push = (IF requireAuth
                                    THEN [at |-> LoginPage,
                                          redirect |-> EncodeURIComponent(auth.path.at)]
                                    ELSE At(Dashboard))
                   /\ auth' = [auth EXCEPT !.path = resp'.push]
      ]_vars

\* C27: as above, except that from the path '/' the redirect to the login
\* page carries no redirect parameter; from every other path the parameter is
\* the encoded current path, which the router decodes back to that path.
C27_ProtectedRoute ==
    [][\A requireAuth \in BOOLEAN :
         ProtectedRoute(requireAuth, LoginPage) =>
            /\ RendersByState(requireAuth)
            /\ (~auth.loading /\ ~Admitted(requireAuth)) =>
                   /\ resp'.push.at = (IF requireAuth THEN LoginPage ELSE Dashboard)
                   /\ resp'.push.redirect =
                          (IF requireAuth /\ auth.path.at # Home
                           THEN EncodeURIComponent(auth.path.at) ELSE NoParam)
                   /\ (resp'.push.redirect # NoParam =>
                          DecodeQuery(resp'.push.redirect) = auth.path.at)
                   /\ auth' = [auth EXCEPT !.path = resp'.push]
      ]_vars

\* a protected page other than '/' was rendered with no user and loading
\* over: nothing was shown and the router now stands on the login page with
\* the tasks page as its redirect parameter
C27_Witness ==
    /\ resp.op = "render" /\ resp.requireAuth /\ resp.out = "null"
    /\ resp.from = At(TasksPage)
    /\ resp.push = [at |-> LoginPage, redirect |-> EncodeURIComponent(TasksPage)]
    /\ auth.path = resp.push

\* C29: from logout() until the next successful login or register the
\* context user is null and neither the token cookie nor the user cookie is
\* present, whatever request answered in between.
C29_LoggedOutStays ==
    auth.out => (auth.user = Null /\ auth.token = Null /\ auth.cookie = Null)

\* C30: whenever the loading flag is up it comes down again: after the mount,
\* after a login or register attempt, answered with success or failure, with
\* or without cookies at the mount.
C30_LoadingSettles == auth.loading ~> ~auth.loading

\* a login was answered with a failure and the flag it raised is down again
C30_Witness ==
    /\ resp.op = "login" /\ resp.answer = "error"
    /\ ~auth.loading /\ auth.pc = "ready"
====
